---- MODULE Spec2Model ----
(***************************************************************************)
(* TrackVis TRK codec of nibabel.streamlines (trk.py): TrkReader,          *)
(* TrkWriter and TrkFile, over a byte-addressed file.                      *)
(*                                                                         *)
(* A file is a finite string of bytes, a handle on it a cursor.  Integers  *)
(* are two's complement, floats IEEE-754 binary32, in the byte order the   *)
(* numpy dtype names ("<" little endian, the native order of the machine   *)
(* modelled; ">" the swapped one).  A float value is an exact rational     *)
(* <<n, d>>; every value the model computes is a small dyadic number, so   *)
(* float32 arithmetic is exact on it.  <<0, 0>> stands for a bit pattern   *)
(* outside that range (inf, nan, denormal, huge).                          *)
(***************************************************************************)
EXTENDS Integers, Sequences, FiniteSets, TLC

\* ---------------------------------------------------------------- bounds

\* Streamline records an input file or an input sequence holds at most.
MaxRecords == 2

\* ------------------------------------------------------------ arithmetic

Abs(a) == IF a < 0 THEN -a ELSE a

Min(a, b) == IF a <= b THEN a ELSE b

Max(a, b) == IF a >= b THEN a ELSE b

RECURSIVE GCD(_, _)
GCD(a, b) == IF b = 0 THEN a ELSE GCD(b, a % b)

RECURSIVE Pow2(_)
Pow2(k) == IF k <= 0 THEN 1 ELSE 2 * Pow2(k - 1)

\* Largest k with 2^k <= a, for a >= 1.
RECURSIVE FloorLog2(_)
FloorLog2(a) == IF a <= 1 THEN 0 ELSE 1 + FloorLog2(a \div 2)

\* Number of trailing zero bits of a, for a >= 1.
RECURSIVE TrailingZeros(_)
TrailingZeros(a) == IF a % 2 = 1 THEN 0 ELSE 1 + TrailingZeros(a \div 2)

NaN == <<0, 0>>

IsNum(x) == x[2] > 0

Rat(n, d) ==
    IF d = 0 THEN NaN
    ELSE LET g == GCD(Abs(n), Abs(d))
             s == IF d < 0 THEN -1 ELSE 1
         IN  <<(s * n) \div g, (s * d) \div g>>

Whole(n) == <<n, 1>>

RatAdd(x, y) == IF IsNum(x) /\ IsNum(y) THEN Rat(x[1] * y[2] + y[1] * x[2], x[2] * y[2]) ELSE NaN

RatSub(x, y) == IF IsNum(x) /\ IsNum(y) THEN Rat(x[1] * y[2] - y[1] * x[2], x[2] * y[2]) ELSE NaN

RatMul(x, y) == IF IsNum(x) /\ IsNum(y) THEN Rat(x[1] * y[1], x[2] * y[2]) ELSE NaN

\* numpy divides floats by zero to inf or nan, with a warning and no exception.
RatDiv(x, y) == IF IsNum(x) /\ IsNum(y) THEN Rat(x[1] * y[2], x[2] * y[1]) ELSE NaN

RatIsInt(x) == IsNum(x) /\ x[2] = 1

\* ----------------------------------------------------------- byte strings

Reverse(s) == [i \in 1..Len(s) |-> s[Len(s) + 1 - i]]

Zeros(n) == [i \in 1..n |-> 0]

RECURSIVE Flatten(_)
Flatten(ss) == IF ss = <<>> THEN <<>> ELSE Head(ss) \o Flatten(Tail(ss))

\* Byte k (0 = least significant) of the w-byte two's complement of v.
IntByte(v, k) ==
    IF v >= 0 THEN (v \div Pow2(8 * k)) % 256
    ELSE 255 - (((-v - 1) \div Pow2(8 * k)) % 256)

IntLE(v, w) == [k \in 1..w |-> IntByte(v, k - 1)]

RECURSIVE UnsignedLE(_)
UnsignedLE(s) == IF s = <<>> THEN 0 ELSE Head(s) + 256 * UnsignedLE(Tail(s))

SignedLE(s) ==
    IF s[Len(s)] >= 128
    THEN -UnsignedLE([k \in 1..Len(s) |-> 255 - s[k]]) - 1
    ELSE UnsignedLE(s)

native_code == "<"

swapped_code == ">"

\* The bytes of s as the little-endian string the order `code` makes of them.
ToLE(s, code) == IF code = native_code THEN s ELSE Reverse(s)

PackInt(v, w, code) == ToLE(IntLE(v, w), code)

UnpackInt(s, code) == SignedLE(ToLE(s, code))

\* binary32 of a dyadic rational with at most 24 significant bits.
F32LE(x) ==
    IF x[1] = 0 THEN Zeros(4)
    ELSE LET a    == Abs(x[1])
             l    == FloorLog2(a)
             exp  == l - FloorLog2(x[2]) + 127
             mant == a * Pow2(23 - l) - Pow2(23)
             sign == IF x[1] < 0 THEN 128 ELSE 0
         IN  << mant % 256,
                (mant \div 256) % 256,
                (exp % 2) * 128 + (mant \div 65536),
                sign + (exp \div 2) >>

F32Value(s) ==
    LET sign == IF s[4] >= 128 THEN -1 ELSE 1
        exp  == (s[4] % 128) * 2 + (s[3] \div 128)
        mant == (s[3] % 128) * 65536 + s[2] * 256 + s[1]
        sig  == Pow2(23) + mant
        t    == TrailingZeros(sig)
        down == 150 - exp
    IN  IF exp = 0 /\ mant = 0 THEN Whole(0)
        ELSE IF exp = 0 \/ exp = 255 THEN NaN
        ELSE IF down <= 0
             THEN IF down >= -6 THEN Whole(sign * sig * Pow2(-down)) ELSE NaN
        ELSE IF down - Min(t, down) > 24 THEN NaN
        ELSE <<sign * (sig \div Pow2(Min(t, down))), Pow2(down - Min(t, down))>>

PackFloat(x, code) == ToLE(F32LE(x), code)

UnpackFloat(s, code) == F32Value(ToLE(s, code))

\* ------------------------------------------------------------------ files

\* A file: its length and its nonzero bytes by position (every other byte is 0).
EmptyFile == [len |-> 0, nz |-> <<>>]

ByteAt(f, p) == IF p \in DOMAIN f.nz THEN f.nz[p] ELSE 0

\* file.read(n) at cursor pos: the bytes there are, at most n of them (all of
\* them for a negative n); the cursor moves by the number of bytes returned.
read(f, pos, n) ==
    LET avail == Max(0, f.len - pos)
        cnt   == IF n < 0 THEN avail ELSE Min(n, avail)
    IN  [i \in 1..cnt |-> ByteAt(f, pos + i - 1)]

\* file.write(s) at cursor pos: overwrites, extends the file, zero-fills a gap.
write(f, pos, s) ==
    LET over == pos..(pos + Len(s) - 1)
        keep == {p \in (DOMAIN f.nz) \ over : TRUE} \cup {p \in over : s[p - pos + 1] # 0}
    IN  [len |-> Max(f.len, pos + Len(s)),
         nz  |-> [p \in keep |-> IF p \in over THEN s[p - pos + 1] ELSE f.nz[p]]]

\* ---------------------------------------------------------- header layout

Fd(name, type, size, dims) == [name |-> name, type |-> type, size |-> size, dims |-> dims]

\* The fields the two layouts share before and after the version-2 matrix.
header_dtd_head ==
    << Fd("MAGIC_NUMBER", "S", 6, <<>>),
       Fd("DIMENSIONS", "h", 2, <<3>>),
       Fd("VOXEL_SIZES", "f4", 4, <<3>>),
       Fd("ORIGIN", "f4", 4, <<3>>),
       Fd("NB_SCALARS_PER_POINT", "h", 2, <<>>),
       Fd("scalar_name", "S", 20, <<10>>),
       Fd("NB_PROPERTIES_PER_STREAMLINE", "h", 2, <<>>),
       Fd("property_name", "S", 20, <<10>>) >>

header_dtd_tail ==
    << Fd("VOXEL_ORDER", "S", 4, <<>>),
       Fd("pad2", "S", 4, <<>>),
       Fd("image_orientation_patient", "f4", 4, <<6>>),
       Fd("pad1", "S", 2, <<>>),
       Fd("invert_x", "S", 1, <<>>),
       Fd("invert_y", "S", 1, <<>>),
       Fd("invert_z", "S", 1, <<>>),
       Fd("swap_xy", "S", 1, <<>>),
       Fd("swap_yz", "S", 1, <<>>),
       Fd("swap_zx", "S", 1, <<>>),
       Fd("NB_STREAMLINES", "i4", 4, <<>>),
       Fd("version", "i4", 4, <<>>),
       Fd("hdr_size", "i4", 4, <<>>) >>

header_1_dtd == header_dtd_head \o << Fd("reserved", "S", 508, <<>>) >> \o header_dtd_tail

header_2_dtd ==
    header_dtd_head
    \o << Fd("to_world_space", "f4", 4, <<4, 4>>), Fd("reserved", "S", 444, <<>>) >>
    \o header_dtd_tail

RECURSIVE Product(_)
Product(dims) == IF dims = <<>> THEN 1 ELSE Head(dims) * Product(Tail(dims))

FieldBytes(d) == d.size * Product(d.dims)

RECURSIVE SizeOfFirst(_, _)
SizeOfFirst(dtd, k) == IF k = 0 THEN 0 ELSE SizeOfFirst(dtd, k - 1) + FieldBytes(dtd[k])

\* numpy's dtype.itemsize
itemsize(dtd) == SizeOfFirst(dtd, Len(dtd))

names(dtd) == {dtd[k].name : k \in 1..Len(dtd)}

IndexOf(dtd, name) == CHOOSE k \in 1..Len(dtd) : dtd[k].name = name

\* A bytes value as numpy returns it: without its trailing NUL bytes.
StripNul(s) ==
    LET used == {i \in 1..Len(s) : s[i] # 0}
    IN  IF used = {} THEN <<>>
        ELSE SubSeq(s, 1, CHOOSE m \in used : \A i \in used : i <= m)

DecodeElem(type, s, code) ==
    CASE type = "S"  -> StripNul(s)
      [] type = "f4" -> UnpackFloat(s, code)
      [] OTHER       -> UnpackInt(s, code)

Elem(s, size, i) == SubSeq(s, (i - 1) * size + 1, i * size)

DecodeField(d, s, code) ==
    CASE d.dims = <<>>   -> DecodeElem(d.type, s, code)
      [] Len(d.dims) = 1 -> [i \in 1..d.dims[1] |-> DecodeElem(d.type, Elem(s, d.size, i), code)]
      [] OTHER           ->
            [r \in 1..d.dims[1] |->
                [c \in 1..d.dims[2] |->
                    DecodeElem(d.type, Elem(s, d.size, (r - 1) * d.dims[2] + c), code)]]

\* dict(zip(rec.dtype.names, rec[0])) of np.fromstring(s, dtype) read in the
\* byte order `code`: every field of the layout by name.
fromstring(s, dtd, code) ==
    [name \in names(dtd) |->
        LET k == IndexOf(dtd, name)
        IN  DecodeField(dtd[k], SubSeq(s, SizeOfFirst(dtd, k - 1) + 1, SizeOfFirst(dtd, k)), code)]

EncodeElem(type, size, v, code) ==
    CASE type = "S"  -> [i \in 1..size |-> IF i <= Len(v) THEN v[i] ELSE 0]
      [] type = "f4" -> PackFloat(v, code)
      [] OTHER       -> PackInt(v, size, code)

EncodeField(d, v, code) ==
    CASE d.dims = <<>>   -> EncodeElem(d.type, d.size, v, code)
      [] Len(d.dims) = 1 -> Flatten([i \in 1..d.dims[1] |-> EncodeElem(d.type, d.size, v[i], code)])
      [] OTHER           ->
            Flatten([r \in 1..d.dims[1] |->
                Flatten([c \in 1..d.dims[2] |-> EncodeElem(d.type, d.size, v[r][c], code)])])

\* rec.tostring(): the fields of header h in the layout's order.
tostring(h, dtd, code) == Flatten([k \in 1..Len(dtd) |-> EncodeField(dtd[k], h[dtd[k].name], code)])

ZeroElem(type) == CASE type = "S" -> <<>> [] type = "f4" -> Whole(0) [] OTHER -> 0

\* np.zeros(1, dtype)[0]
zeros(dtd) ==
    [name \in names(dtd) |->
        LET d == dtd[IndexOf(dtd, name)]
        IN  CASE d.dims = <<>>   -> ZeroElem(d.type)
              [] Len(d.dims) = 1 -> [i \in 1..d.dims[1] |-> ZeroElem(d.type)]
              [] OTHER           -> [r \in 1..d.dims[1] |-> [c \in 1..d.dims[2] |-> ZeroElem(d.type)]]]

eye4 == [r \in 1..4 |-> [c \in 1..4 |-> IF r = c THEN Whole(1) ELSE Whole(0)]]

\* b"TRACK"
MAGIC_NUMBER == <<84, 82, 65, 67, 75>>

HEADER_SIZE == 1000

\* b"LPS"
LPS == <<76, 80, 83>>

\* TrkWriter.create_empty_header
create_empty_header ==
    [zeros(header_2_dtd) EXCEPT
        !["MAGIC_NUMBER"]   = MAGIC_NUMBER,
        !["VOXEL_SIZES"]    = <<Whole(1), Whole(1), Whole(1)>>,
        !["DIMENSIONS"]     = <<1, 1, 1>>,
        !["to_world_space"] = eye4,
        !["version"]        = 2,
        !["hdr_size"]       = HEADER_SIZE]

\* -------------------------------------------------------------- TrkReader

\* TrkReader.__init__ on the file f with the cursor at p: the exception it
\* raises ("None" for none), the instance's fields, and where the cursor is left.
\* A read short of a whole header is refused by np.fromstring (ValueError); an
\* empty one gives an empty array, whose version is neither 1 nor 2.
TrkReader_init(f, p) ==
    LET header_str == read(f, p, itemsize(header_2_dtd))
        at         == p + Len(header_str)
        fail(e)    == [raised |-> e, pos |-> at]
    IN  IF Len(header_str) = 0 THEN fail("HeaderError")
        ELSE IF Len(header_str) < itemsize(header_2_dtd) THEN fail("ValueError")
        ELSE
          LET version == fromstring(header_str, header_2_dtd, native_code)["version"]
              dtd     == IF version = 1 THEN header_1_dtd ELSE header_2_dtd
              native  == fromstring(header_str, dtd, native_code)
              swapped == fromstring(header_str, dtd, swapped_code)
              ok(h, e) ==
                  [raised      |-> "None",
                   pos         |-> at,
                   header      |-> IF h["VOXEL_ORDER"] = <<>>
                                   THEN [h EXCEPT !["VOXEL_ORDER"] = LPS] ELSE h,
                   endianness  |-> e,
                   offset_data |-> at]
          IN  IF version # 1 /\ version # 2 THEN fail("HeaderError")
              ELSE IF native["hdr_size"] = HEADER_SIZE THEN ok(native, native_code)
              ELSE IF swapped["hdr_size"] = HEADER_SIZE THEN ok(swapped, swapped_code)
              ELSE fail("HeaderError")

\* Size in bytes of the i4 and f4 dtypes.
i4_itemsize == 4

f4_itemsize == 4

\* Lines 193-198: voxelmm to voxel space, then the half-voxel shift.
reader_convert(x, voxel_size) ==
    RatSub(RatDiv(x, voxel_size), RatDiv(voxel_size, Whole(2)))

\* The floats of the byte string s.
floats(s, code) ==
    [k \in 1..(Len(s) \div f4_itemsize) |-> UnpackFloat(Elem(s, f4_itemsize, k), code)]

\* One pass of the loop in a reader that takes any short read of the point
\* count (len(nb_pts_str) < 4) for the end of the input.
read_streamline_short_is_end(f, p, header, endianness) ==
    LET S          == header["NB_SCALARS_PER_POINT"]
        P          == header["NB_PROPERTIES_PER_STREAMLINE"]
        nb_pts_and_scalars   == 3 + S
        pts_and_scalars_size == nb_pts_and_scalars * f4_itemsize
        properties_size      == P * f4_itemsize
        nb_pts_str == read(f, p, i4_itemsize)
        p1         == p + Len(nb_pts_str)
        nb_pts     == UnpackInt(nb_pts_str, endianness)
        \* nb_pts * pts_and_scalars_size, kept within the file's order of magnitude:
        \* past the end of the file, how far a read asks makes no difference
        wanted     == Max(Min(nb_pts, f.len + 1), 0 - (f.len + 1)) * pts_and_scalars_size
        buffer     == read(f, p1, wanted)
        p2         == p1 + Len(buffer)
        data       == floats(buffer, endianness)
        row(n)     == SubSeq(data, (n - 1) * nb_pts_and_scalars + 1, n * nb_pts_and_scalars)
        props_str  == IF P > 0 THEN read(f, p2, properties_size) ELSE <<>>
        p3         == p2 + Len(props_str)
        voxel      == header["VOXEL_SIZES"]
    IN  IF Len(nb_pts_str) < i4_itemsize THEN [kind |-> "break", pos |-> p1]
        ELSE IF nb_pts < 0
             THEN [kind |-> "raise", exc |-> "ValueError", pos |-> p2]
        ELSE IF Len(buffer) < wanted
             THEN [kind |-> "raise", exc |-> "TypeError", pos |-> p2]
        ELSE IF Len(props_str) < properties_size
             THEN [kind |-> "raise", exc |-> "ValueError", pos |-> p3]
        ELSE [kind |-> "yield",
              pos  |-> p3,
              triple |->
                [points     |-> [n \in 1..nb_pts |->
                                    [c \in 1..3 |-> reader_convert(row(n)[c], voxel[c])]],
                 scalars    |-> IF S > 0
                                THEN [n \in 1..nb_pts |-> SubSeq(row(n), 4, nb_pts_and_scalars)]
                                ELSE <<>>,
                 properties |-> floats(props_str, endianness)]]

\* One pass of the loop of TrkReader.__iter__ with the cursor at p: what it does
\* ("break" at the end of the input, "yield" with a triple, "raise" with the
\* exception) and where it leaves the cursor.
read_streamline(f, p, header, endianness) ==
    LET S          == header["NB_SCALARS_PER_POINT"]
        P          == header["NB_PROPERTIES_PER_STREAMLINE"]
        nb_pts_and_scalars   == 3 + S
        pts_and_scalars_size == nb_pts_and_scalars * f4_itemsize
        properties_size      == P * f4_itemsize
        nb_pts_str == read(f, p, i4_itemsize)
        p1         == p + Len(nb_pts_str)
        nb_pts     == UnpackInt(nb_pts_str, endianness)
        \* nb_pts * pts_and_scalars_size, kept within the file's order of magnitude:
        \* past the end of the file, how far a read asks makes no difference
        wanted     == Max(Min(nb_pts, f.len + 1), 0 - (f.len + 1)) * pts_and_scalars_size
        buffer     == read(f, p1, wanted)
        p2         == p1 + Len(buffer)
        data       == floats(buffer, endianness)
        row(n)     == SubSeq(data, (n - 1) * nb_pts_and_scalars + 1, n * nb_pts_and_scalars)
        props_str  == IF P > 0 THEN read(f, p2, properties_size) ELSE <<>>
        p3         == p2 + Len(props_str)
        voxel      == header["VOXEL_SIZES"]
    IN  IF Len(nb_pts_str) = 0 THEN [kind |-> "break", pos |-> p1]
        ELSE IF Len(nb_pts_str) < i4_itemsize
             THEN [kind |-> "raise", exc |-> "struct.error", pos |-> p1]
        ELSE IF nb_pts < 0
             THEN [kind |-> "raise", exc |-> "ValueError", pos |-> p2]
        ELSE IF Len(buffer) < wanted
             THEN [kind |-> "raise", exc |-> "TypeError", pos |-> p2]
        ELSE IF Len(props_str) < properties_size
             THEN [kind |-> "raise", exc |-> "ValueError", pos |-> p3]
        ELSE [kind |-> "yield",
              pos  |-> p3,
              triple |->
                [points     |-> [n \in 1..nb_pts |->
                                    [c \in 1..3 |-> reader_convert(row(n)[c], voxel[c])]],
                 scalars    |-> IF S > 0
                                THEN [n \in 1..nb_pts |-> SubSeq(row(n), 4, nb_pts_and_scalars)]
                                ELSE <<>>,
                 properties |-> floats(props_str, endianness)]]

\* Line 207: f.seek(start_position, os.SEEK_CUR) with the cursor at p.
restore_position(p, start_position) == p + start_position

\* -------------------------------------------------------------- TrkWriter

\* An optional value: <<>> is None, <<v>> is v.
None == <<>>

Some(v) == <<v>>

\* TrkWriter.__init__, lines 227-242: the header the writer starts from, built
\* from the container's header hdr (extra, nb_streamlines, nb_scalars_per_point,
\* nb_properties_per_streamline, voxel_sizes, to_world_space, voxel_order).
writer_header(hdr) ==
    LET empty == create_empty_header
        base  == [k \in DOMAIN empty |->
                    IF k \in DOMAIN hdr.extra THEN hdr.extra[k] ELSE empty[k]]
    IN  [base EXCEPT
            !["NB_STREAMLINES"] =
                IF hdr.nb_streamlines # None THEN hdr.nb_streamlines[1] ELSE 0,
            !["NB_SCALARS_PER_POINT"]         = hdr.nb_scalars_per_point,
            !["NB_PROPERTIES_PER_STREAMLINE"] = hdr.nb_properties_per_streamline,
            !["VOXEL_SIZES"]    = hdr.voxel_sizes,
            !["to_world_space"] = hdr.to_world_space,
            !["VOXEL_ORDER"]    = hdr.voxel_order]

\* Lines 269-274: voxel to voxelmm space, then the half-voxel shift.
writer_convert(x, voxel_size) ==
    RatAdd(RatMul(x, voxel_size), RatDiv(voxel_size, Whole(2)))

\* Number of values of the scalars of one streamline once reshaped to
\* (len(points), -1): scalars.size.
scalars_size(t) == IF t.scalars = <<>> THEN 0 ELSE Len(t.scalars) * Len(t.scalars[1])

\* Lines 276-278: the bytes of one record.
pack_streamline(t, voxel) ==
    PackInt(Len(t.points), i4_itemsize, native_code)
    \o Flatten([n \in 1..Len(t.points) |->
            Flatten([c \in 1..3 |-> PackFloat(writer_convert(t.points[n][c], voxel[c]), native_code)])
            \o (IF t.scalars = <<>> THEN <<>>
                ELSE Flatten([c \in 1..Len(t.scalars[n]) |-> PackFloat(t.scalars[n][c], native_code)]))])
    \o Flatten([c \in 1..Len(t.properties) |-> PackFloat(t.properties[c], native_code)])

\* Lines 261-262: the check of one streamline before it is written.
missing_scalars(t) == Len(t.scalars) > 0 /\ Len(t.scalars) # Len(t.points)

\* The end of write under floor division: the ratios are always whole, and
\* no DataError is raised.
final_counts_floor(w) ==
    IF w.nb_points = 0 \/ w.nb_streamlines = 0
    THEN [raised |-> "ZeroDivisionError"]
    ELSE [raised |-> "None",
          NB_STREAMLINES               |-> w.nb_streamlines,
          NB_SCALARS_PER_POINT         |-> w.nb_scalars \div w.nb_points,
          NB_PROPERTIES_PER_STREAMLINE |-> w.nb_properties \div w.nb_streamlines]

\* Lines 288-300: what the end of TrkWriter.write makes of the running totals:
\* the exception it raises, or the counts of the final header.
final_counts(w) ==
    IF w.nb_points = 0 \/ w.nb_streamlines = 0
    THEN [raised |-> "ZeroDivisionError"]
    ELSE LET nb_scalars_per_point         == Rat(w.nb_scalars, w.nb_points)
             nb_properties_per_streamline == Rat(w.nb_properties, w.nb_streamlines)
         IN  IF ~RatIsInt(nb_scalars_per_point) THEN [raised |-> "DataError"]
             ELSE IF ~RatIsInt(nb_properties_per_streamline) THEN [raised |-> "DataError"]
             ELSE [raised |-> "None",
                   NB_STREAMLINES               |-> w.nb_streamlines,
                   NB_SCALARS_PER_POINT         |-> nb_scalars_per_point[1],
                   NB_PROPERTIES_PER_STREAMLINE |-> nb_properties_per_streamline[1]]

\* ---------------------------------------------------------------- TrkFile

\* TrkFile.is_correct_format with the cursor at p: the outcomes the call can
\* have.  The seek back of 5 bytes from a cursor less than 5 bytes into the
\* file aims before its start: an OS file refuses it (IOError), an in-memory
\* one stops at 0.
is_correct_format(f, p) ==
    LET magic_number == read(f, p, 5)
        target       == p + Len(magic_number) - 5
        value        == (magic_number = MAGIC_NUMBER)
    IN  IF target >= 0
        THEN {[raised |-> "None", value |-> value, pos |-> target]}
        ELSE {[raised |-> "None", value |-> value, pos |-> 0],
              [raised |-> "IOError", value |-> FALSE, pos |-> p + Len(magic_number)]}

\* Lines 426-430 of TrkFile.load: what load sets in the container's header,
\* from the reader's header as it is when these lines run.
load_header(affine, header) ==
    [to_world_space |-> affine,
     nb_streamlines |-> IF header["NB_STREAMLINES"] > 0
                        THEN Some(header["NB_STREAMLINES"]) ELSE None]

\* ----------------------------------------------------------------- inputs

VoxelChoices == { <<Whole(1), Whole(1), Whole(1)>>, <<Whole(2), Whole(2), Whole(2)>> }

\* (scalars per point, properties per streamline) of an input file.
AuxChoices == { <<0, 0>>, <<2, 1>> }

\* Record j of an input file, as the values on file (voxelmm space): j % 3 points.
file_record(j, S, P) ==
    [points     |-> [n \in 1..(j % 3) |-> <<Whole(n), Whole(j), Rat(2 * n + 1, 2)>>],
     scalars    |-> IF S = 0 THEN <<>>
                    ELSE [n \in 1..(j % 3) |-> [c \in 1..S |-> Whole(10 * n + c)]],
     properties |-> [c \in 1..P |-> Whole(20 + j)]]

\* The record layout of the format: int32 point count, the points with their
\* scalars, the properties, in the byte order `code`.
encode_record(t, code) ==
    PackInt(Len(t.points), i4_itemsize, code)
    \o Flatten([n \in 1..Len(t.points) |->
            Flatten([c \in 1..3 |-> PackFloat(t.points[n][c], code)])
            \o (IF t.scalars = <<>> THEN <<>>
                ELSE Flatten([c \in 1..Len(t.scalars[n]) |-> PackFloat(t.scalars[n][c], code)]))])
    \o Flatten([c \in 1..Len(t.properties) |-> PackFloat(t.properties[c], code)])

\* The header of an input file, as logical values.
file_header(version, count, S, P, voxel) ==
    LET h == [create_empty_header EXCEPT
                 !["version"]        = version,
                 !["NB_STREAMLINES"] = count,
                 !["NB_SCALARS_PER_POINT"]         = S,
                 !["NB_PROPERTIES_PER_STREAMLINE"] = P,
                 !["VOXEL_SIZES"]    = voxel,
                 !["VOXEL_ORDER"]    = LPS]
    IN  IF version = 1 THEN [k \in names(header_1_dtd) |-> IF k = "reserved" THEN <<>> ELSE h[k]]
        ELSE h

header_dtd(version) == IF version = 1 THEN header_1_dtd ELSE header_2_dtd

\* Input files: a header, K whole records, then the first `tail` bytes of one
\* more record (0: the file ends on a record boundary).
record_bytes(S, P) == i4_itemsize + (3 + S) * f4_itemsize + P * f4_itemsize

\* Where an input file may be cut into its last record: nowhere, in the point
\* count, after it, in the points, in the properties.
TailLens(S, P) == {0, 2, i4_itemsize, record_bytes(S, 0) - 2, record_bytes(S, P) - 2}

TrkInputs ==
    UNION { { [kind |-> "trk", version |-> v, order |-> o, count |-> n, S |-> a[1], P |-> a[2],
               voxel |-> x, K |-> k, tail |-> t,
               header |-> file_header(v, n, a[1], a[2], x)] :
                v \in {1, 2}, o \in {native_code, swapped_code}, n \in 0..(MaxRecords + 1),
                x \in VoxelChoices, k \in 0..MaxRecords, t \in TailLens(a[1], a[2]) } :
            a \in AuxChoices }

\* Sources shorter than the magic number: its first n bytes.
StubInputs == { [kind |-> "stub", n |-> n] : n \in 0..4 }

file_bytes(g) ==
    IF g.kind = "stub" THEN SubSeq(MAGIC_NUMBER, 1, g.n)
    ELSE tostring(g.header, header_dtd(g.version), g.order)
         \o Flatten([j \in 1..g.K |-> encode_record(file_record(j, g.S, g.P), g.order)])
         \o SubSeq(encode_record(file_record(1, g.S, g.P), g.order), 1, g.tail)

\* ------------------------------------------------------------------ state

VARIABLES
    given,      \* the input the run started from
    disk,       \* the bytes of the file
    pos,        \* the cursor of the file object handed to TrkFile and TrkReader
    reader,     \* the TrkReader instance: header, endianness, offset_data
    gen,        \* the frame of the traversal (TrkReader.__iter__) under way or ended
    yielded,    \* the triples that traversal has yielded
    first,      \* the triples of the reader's first full traversal
    ret,        \* the last call of the reading client: what it returned or raised
    wret,       \* the same of the writing client
    pc,         \* "idle", or the call under way: "iter", "load", "write"
    calls,      \* calls the client has made
    writer,     \* the TrkWriter instance: header, running totals, beginning
    wpos,       \* the cursor of the writer's file object
    input,      \* the streamlines the writer has been handed so far
    container   \* what TrkFile.load returned

vars == <<given, disk, pos, reader, gen, yielded, first, ret, wret, pc, calls, writer, wpos, input, container>>

readSide == <<reader, gen, yielded, first, container>>

writeSide == <<writer, wpos, input, wret>>

\* Calls one run of the client makes at most.
MaxCalls == 3

NoReader == [made |-> FALSE]

NoGen == [state |-> "none"]

NoWriter == [made |-> FALSE]

NoContainer == [made |-> FALSE]

Returned(op, raised, value, at) == [op |-> op, raised |-> raised, value |-> value, at |-> at]

InitCommon ==
    /\ pos = 0
    /\ reader = NoReader
    /\ gen = NoGen
    /\ yielded = <<>>
    /\ first = [done |-> FALSE]
    /\ ret = Returned("none", "None", FALSE, 0)
    /\ wret = Returned("none", "None", FALSE, 0)
    /\ pc = "idle"
    /\ calls = 0
    /\ writer = NoWriter
    /\ wpos = 0
    /\ input = <<>>
    /\ container = NoContainer

\* Each input with the file that holds its bytes.
InputFiles == { [given |-> g, disk |-> write(EmptyFile, 0, file_bytes(g))] : g \in TrkInputs \cup StubInputs }

Init ==
    /\ \E x \in InputFiles : given = x.given /\ disk = x.disk
    /\ InitCommon

CanCall == pc = "idle" /\ calls < MaxCalls

\* TrkFile.is_correct_format(fileobj)
IsCorrectFormat ==
    /\ CanCall
    /\ \E o \in is_correct_format(disk, pos) :
        /\ pos' = o.pos
        /\ ret' = Returned("is_correct_format", o.raised, o.value, pos)
    /\ calls' = calls + 1
    /\ UNCHANGED <<given, disk, pc, readSide, writeSide>>

\* fileobj.seek(0) by the client
Rewind ==
    /\ CanCall
    /\ pos # 0
    /\ pos' = 0
    /\ ret' = Returned("seek", "None", FALSE, pos)
    /\ calls' = calls + 1
    /\ UNCHANGED <<given, disk, pc, readSide, writeSide>>

made_reader(r) ==
    [made |-> TRUE, header |-> r.header, endianness |-> r.endianness, offset_data |-> r.offset_data]

\* TrkReader(fileobj)
NewTrkReader ==
    /\ CanCall
    /\ ~reader.made
    /\ LET r == TrkReader_init(disk, pos)
       IN  /\ pos' = r.pos
           /\ reader' = IF r.raised = "None" THEN made_reader(r) ELSE reader
           /\ ret' = Returned("TrkReader", r.raised, FALSE, pos)
    /\ calls' = calls + 1
    /\ UNCHANGED <<given, disk, pc, gen, yielded, first, container, writeSide>>

\* Lines 147-177 of TrkReader.__iter__, entered with the cursor at p.
iter_open(p, header) ==
    [state          |-> "running",
     start_position |-> p,
     endless        |-> header["NB_STREAMLINES"] = 0,
     nb_streamlines |-> header["NB_STREAMLINES"],
     i              |-> 0]

\* The loop test of a reader that does not replace a count of 0 by np.inf.
loop_continues_declared(g) == g.i < g.nb_streamlines

\* Line 178: while i < nb_streamlines (np.inf when the count is 0)
loop_continues(g) == g.endless \/ g.i < g.nb_streamlines

\* iter(trk_reader) in a reader that reads on from wherever the cursor is,
\* without the seek to offset_data of line 170.
StartIter_from_cursor ==
    /\ CanCall
    /\ reader.made
    /\ gen' = iter_open(pos, reader.header)
    /\ pos' = pos
    /\ yielded' = <<>>
    /\ pc' = "iter"
    /\ ret' = Returned("iter", "pending", FALSE, pos)
    /\ calls' = calls + 1
    /\ UNCHANGED <<given, disk, reader, first, container, writeSide>>

\* iter(trk_reader), drained by the client
StartIter ==
    /\ CanCall
    /\ reader.made
    /\ gen' = iter_open(pos, reader.header)
    /\ pos' = reader.offset_data
    /\ yielded' = <<>>
    /\ pc' = "iter"
    /\ ret' = Returned("iter", "pending", FALSE, pos)
    /\ calls' = calls + 1
    /\ UNCHANGED <<given, disk, reader, first, container, writeSide>>

Iterating == pc \in {"iter", "load"} /\ gen.state = "running"

\* One pass of the loop that yields a triple.
IterYield ==
    /\ Iterating
    /\ loop_continues(gen)
    /\ LET r == read_streamline(disk, pos, reader.header, reader.endianness)
       IN  /\ r.kind = "yield"
           /\ yielded' = Append(yielded, r.triple)
           /\ pos' = r.pos
    /\ gen' = [gen EXCEPT !.i = @ + 1]
    /\ UNCHANGED <<given, disk, reader, first, ret, pc, calls, container, writeSide>>

\* One pass of the loop that raises: the traversal, and a load that drains it, end.
IterRaise ==
    /\ Iterating
    /\ loop_continues(gen)
    /\ LET r == read_streamline(disk, pos, reader.header, reader.endianness)
       IN  /\ r.kind = "raise"
           /\ pos' = r.pos
           /\ ret' = Returned(pc, r.exc, FALSE, gen.start_position)
    /\ gen' = [gen EXCEPT !.state = "raised"]
    /\ pc' = "idle"
    /\ UNCHANGED <<given, disk, reader, yielded, first, calls, container, writeSide>>

\* The loop ends (count reached, or end of input): lines 203-207.
IterFinish ==
    /\ Iterating
    /\ LET r   == read_streamline(disk, pos, reader.header, reader.endianness)
           end == IF loop_continues(gen) THEN r.pos ELSE pos
       IN  /\ loop_continues(gen) => r.kind = "break"
           /\ pos' = restore_position(end, gen.start_position)
    /\ reader' = [reader EXCEPT !.header["NB_STREAMLINES"] = gen.i]
    /\ gen' = [gen EXCEPT !.state = "finished"]
    /\ first' = IF first.done THEN first ELSE [done |-> TRUE, triples |-> yielded]
    /\ IF pc = "iter"
       THEN /\ pc' = "idle"
            /\ ret' = Returned("iter", "None", FALSE, gen.start_position)
       ELSE UNCHANGED <<pc, ret>>
    /\ UNCHANGED <<given, disk, yielded, calls, container, writeSide>>

\* TrkFile.load(fileobj, ref=None, lazy_load): lines 392-395, then the lazy or
\* the eager branch.
LoadBegin(lazy_load) ==
    /\ CanCall
    /\ ~reader.made
    /\ calls' = calls + 1
    /\ LET r == TrkReader_init(disk, pos)
       IN  IF r.raised # "None"
           THEN /\ pos' = r.pos
                /\ ret' = Returned("load", r.raised, FALSE, pos)
                /\ UNCHANGED <<pc, readSide>>
           ELSE IF "to_world_space" \notin DOMAIN r.header
           THEN /\ pos' = r.pos
                /\ ret' = Returned("load", "KeyError", FALSE, pos)
                /\ UNCHANGED <<pc, readSide>>
           ELSE IF lazy_load
           THEN /\ pos' = r.pos
                /\ reader' = made_reader(r)
                /\ container' = [made |-> TRUE, lazy |-> TRUE,
                                 header |-> load_header(r.header["to_world_space"], r.header)]
                /\ ret' = Returned("load", "None", FALSE, pos)
                /\ UNCHANGED <<pc, gen, yielded, first>>
           ELSE /\ reader' = made_reader(r)
                /\ gen' = iter_open(r.pos, r.header)
                /\ pos' = r.offset_data
                /\ yielded' = <<>>
                /\ pc' = "load"
                /\ ret' = Returned("load", "pending", FALSE, pos)
                /\ UNCHANGED <<first, container>>
    /\ UNCHANGED <<given, disk, writeSide>>

LoadLazy == LoadBegin(TRUE)

LoadEager == LoadBegin(FALSE)

\* The eager branch once the reader is drained: lines 417-433.
LoadFinish ==
    /\ pc = "load"
    /\ gen.state = "finished"
    /\ container' =
        [made |-> TRUE, lazy |-> FALSE,
         points     |-> [k \in 1..Len(yielded) |-> yielded[k].points],
         scalars    |-> IF reader.header["NB_SCALARS_PER_POINT"] = 0 THEN <<>>
                        ELSE [k \in 1..Len(yielded) |-> yielded[k].scalars],
         properties |-> IF reader.header["NB_PROPERTIES_PER_STREAMLINE"] = 0 THEN <<>>
                        ELSE [k \in 1..Len(yielded) |-> yielded[k].properties],
         header     |-> load_header(reader.header["to_world_space"], reader.header)]
    /\ ret' = Returned("load", "None", FALSE, ret.at)
    /\ pc' = "idle"
    /\ UNCHANGED <<given, disk, pos, reader, gen, yielded, first, calls, writeSide>>

\* ----------------------------------------------------------------- saving

\* The points a client's streamline is made of, in voxel space: its first N.
InputPoints == << <<Whole(0), Whole(0), Whole(0)>>, <<Whole(2), Whole(2), Whole(2)>> >>

\* A client's streamline of N points with s scalars at each of M of them and P
\* properties.
streamline(N, s, P, M) ==
    [points     |-> [n \in 1..N |-> InputPoints[n]],
     scalars    |-> IF s = 0 THEN <<>> ELSE [n \in 1..M |-> [c \in 1..s |-> Whole(n + c)]],
     properties |-> [c \in 1..P |-> Whole(7)]]

\* (scalars per point, properties) of the streamlines a writer is handed.
Shapes == { <<0, 0>>, <<1, 0>>, <<2, 0>>, <<3, 0>>, <<0, 1>>, <<0, 2>>, <<2, 1>> }

\* The header of the client's container.
container_header(extra, count, S, P, voxel) ==
    [extra |-> extra, nb_streamlines |-> count, nb_scalars_per_point |-> S,
     nb_properties_per_streamline |-> P, voxel_sizes |-> voxel,
     to_world_space |-> eye4, voxel_order |-> LPS]

\* Writers handed streamlines of any shape.
WriteInputs ==
    { [kind |-> "write", hdr |-> h] :
        h \in { container_header(<<>>, None, 0, 0, <<Whole(1), Whole(1), Whole(1)>>),
                container_header([DIMENSIONS |-> <<2, 3, 4>>, unknown |-> 0], Some(5), 2, 1,
                                 <<Whole(2), Whole(2), Whole(2)>>) } }

\* Containers whose streamlines all have the shape their header declares.
SaveInputs ==
    { [kind |-> "save", hdr |-> container_header(<<>>, n, a[1], a[2], x)] :
        n \in {None, Some(MaxRecords)}, a \in AuxChoices, x \in VoxelChoices }

\* The streamlines the client's iterable may yield next.
InputStreamlines(g) ==
    IF g.kind = "write"
    THEN { streamline(N, a[1], a[2], N) : N \in 0..Len(InputPoints), a \in Shapes }
         \cup { streamline(1, 1, 0, 2) }
    ELSE { streamline(N, g.hdr.nb_scalars_per_point, g.hdr.nb_properties_per_streamline, N) :
             N \in 1..Len(InputPoints) }

InitWrite ==
    /\ given \in WriteInputs
    /\ disk = EmptyFile
    /\ InitCommon

InitSave ==
    /\ given \in SaveInputs
    /\ disk = EmptyFile
    /\ InitCommon

\* TrkWriter(fileobj, header), lines 227-254; write(streamlines) follows.
NewTrkWriter ==
    /\ pc = "idle"
    /\ calls = 0
    /\ ~writer.made
    /\ given.kind \in {"write", "save"}
    /\ LET header == writer_header(given.hdr)
       IN  /\ writer' = [made |-> TRUE, header |-> header, nb_streamlines |-> 0,
                         nb_points |-> 0, nb_scalars |-> 0, nb_properties |-> 0,
                         beginning |-> wpos]
           /\ disk' = write(disk, wpos, tostring(header, header_2_dtd, native_code))
           /\ wpos' = wpos + itemsize(header_2_dtd)
    /\ pc' = "write"
    /\ wret' = Returned("write", "pending", FALSE, wpos)
    /\ UNCHANGED <<given, pos, readSide, ret, calls, input>>

\* One streamline written by a writer that patches the header's count on file
\* after each record instead of once at the end.
write_streamline_patching(f, p, w, t) ==
    LET data == pack_streamline(t, w.header["VOXEL_SIZES"])
        hdr  == [w.header EXCEPT !["NB_STREAMLINES"] = w.nb_streamlines + 1]
    IN  [disk   |-> write(write(f, p, data), w.beginning, tostring(hdr, header_2_dtd, native_code)),
         wpos   |-> p + Len(data),
         writer |-> [w EXCEPT !.nb_streamlines = @ + 1,
                              !.nb_points      = @ + Len(t.points),
                              !.nb_scalars     = @ + scalars_size(t),
                              !.nb_properties  = @ + Len(t.properties)]]

\* Lines 264-284: one streamline written and counted.
write_streamline(f, p, w, t) ==
    LET data == pack_streamline(t, w.header["VOXEL_SIZES"])
    IN  [disk   |-> write(f, p, data),
         wpos   |-> p + Len(data),
         writer |-> [w EXCEPT !.nb_streamlines = @ + 1,
                              !.nb_points      = @ + Len(t.points),
                              !.nb_scalars     = @ + scalars_size(t),
                              !.nb_properties  = @ + Len(t.properties)]]

Writing == pc = "write" /\ writer.made /\ Len(input) < MaxRecords

\* Line 265: numpy refuses to reshape the scalars of a streamline without
\* points to (0, -1), the unknown dimension being undetermined (ValueError).
reshape_refused(t) == Len(t.points) = 0

\* One pass of the loop of TrkWriter.write.
WriteStreamline ==
    /\ Writing
    /\ \E t \in InputStreamlines(given) :
        /\ ~missing_scalars(t)
        /\ ~reshape_refused(t)
        /\ input' = Append(input, t)
        /\ LET o == write_streamline(disk, wpos, writer, t)
           IN  disk' = o.disk /\ wpos' = o.wpos /\ writer' = o.writer
    /\ UNCHANGED <<given, pos, readSide, ret, wret, pc, calls>>

\* One pass of the loop that raises: line 262, or the reshape of line 265.
WriteRaise ==
    /\ Writing
    /\ \E t \in InputStreamlines(given) :
        /\ missing_scalars(t) \/ reshape_refused(t)
        /\ input' = Append(input, t)
        /\ wret' = Returned("write", IF missing_scalars(t) THEN "DataError" ELSE "ValueError",
                            FALSE, wret.at)
    /\ pc' = "idle"
    /\ UNCHANGED <<given, disk, pos, readSide, ret, calls, writer, wpos>>

\* The input is exhausted: lines 288-304.
WriteEnd ==
    /\ pc = "write"
    /\ writer.made
    /\ LET c == final_counts(writer)
       IN  IF c.raised # "None"
           THEN /\ wret' = Returned("write", c.raised, FALSE, wret.at)
                /\ UNCHANGED <<disk, writer, wpos>>
           ELSE LET header == [writer.header EXCEPT
                                  !["NB_STREAMLINES"]               = c.NB_STREAMLINES,
                                  !["NB_SCALARS_PER_POINT"]         = c.NB_SCALARS_PER_POINT,
                                  !["NB_PROPERTIES_PER_STREAMLINE"] = c.NB_PROPERTIES_PER_STREAMLINE]
                IN  /\ writer' = [writer EXCEPT !.header = header]
                    /\ disk' = write(disk, writer.beginning, tostring(header, header_2_dtd, native_code))
                    /\ wpos' = writer.beginning + itemsize(header_2_dtd)
                    /\ wret' = Returned("write", "None", FALSE, wret.at)
    /\ pc' = "idle"
    /\ UNCHANGED <<given, pos, readSide, ret, calls, input>>

\* ------------------------------------------------------------ specifications

Next ==
    \/ IsCorrectFormat
    \/ Rewind
    \/ NewTrkReader
    \/ StartIter
    \/ IterYield
    \/ IterRaise
    \/ IterFinish
    \/ LoadLazy
    \/ LoadEager
    \/ LoadFinish

Spec == Init /\ [][Next]_vars


\* A writer handed streamlines of any shape.
NextWrite ==
    \/ NewTrkWriter
    \/ WriteStreamline
    \/ WriteRaise
    \/ WriteEnd

SpecWrite == InitWrite /\ [][NextWrite]_vars

\* TrkFile.save of a container, then TrkFile.load of the file it left.
NextSave ==
    \/ NewTrkWriter
    \/ WriteStreamline
    \/ WriteEnd
    \/ LoadLazy
    \/ LoadEager
    \/ StartIter
    \/ IterYield
    \/ IterFinish
    \/ LoadFinish

SpecSave == InitSave /\ [][NextSave]_vars

\* Writers whose file is read back after the write was left unfinished.
CrashInputs ==
    WriteInputs
    \cup { [kind |-> "write",
            hdr  |-> container_header(<<>>, None, 2, 1, <<Whole(2), Whole(2), Whole(2)>>)] }

InitCrash ==
    /\ given \in CrashInputs
    /\ disk = EmptyFile
    /\ InitCommon

\* The process stops inside the loop of TrkWriter.write, between two passes:
\* the file stays as the passes so far left it.
Abandon ==
    /\ pc = "write"
    /\ writer.made
    /\ pc' = "idle"
    /\ wret' = Returned("write", "abandoned", FALSE, wret.at)
    /\ UNCHANGED <<given, disk, pos, readSide, ret, calls, writer, wpos, input>>

\* A write that ends, raises or is abandoned, then a reader over its file.
NextCrash ==
    \/ NewTrkWriter
    \/ WriteStreamline
    \/ WriteRaise
    \/ WriteEnd
    \/ Abandon
    \/ NewTrkReader
    \/ StartIter
    \/ IterYield
    \/ IterRaise
    \/ IterFinish

SpecCrash == InitCrash /\ [][NextCrash]_vars

\* ------------------------------------------------------------------ claims

\* The header now on file where the writer put it.
HeaderOnFile == fromstring(read(disk, writer.beginning, itemsize(header_2_dtd)), header_2_dtd, native_code)

\* The placeholder header the writer's constructor wrote.
Placeholder == writer_header(given.hdr)

\* Scalars streamline t carries at each of its points, properties it carries.
ScalarsPerPoint(t) == IF t.scalars = <<>> THEN 0 ELSE Len(t.scalars[1])

\* The write call has consumed its whole input and ended.
WriteEnded == pc = "idle" /\ writer.made /\ wret.op = "write" /\ writer.nb_streamlines = Len(input)

\* C1: save then load gives back the points that were saved, whatever the voxel
\* size: an eager load of the file a successful save left holds, streamline by
\* streamline, the points the writer was handed.
C1_RoundTrip ==
    (wret.op = "write" /\ wret.raised = "None" /\ container.made /\ ~container.lazy)
    => container.points = [k \in 1..Len(input) |-> input[k].points]

\* The file of input g with its header in native byte order.
NativeCopy(g) == write(EmptyFile, 0, tostring(g.header, header_dtd(g.version), native_code))

\* C2: a TrkReader built at the start of a file whose header is the byte-swapped
\* copy of a valid one is built without error, has the swapped byte order, and
\* holds the field values the native-order header decodes to.
C2_EndiannessSymmetry ==
    (given.kind = "trk" /\ given.order = swapped_code /\ ret.op = "TrkReader" /\ ret.at = 0)
    => /\ ret.raised = "None"
       /\ reader.made
       /\ reader.endianness = swapped_code
       /\ reader.header = TrkReader_init(NativeCopy(given), 0).header

\* C3: TrkFile.load of a well-formed version-1 file returns a container whose
\* affine is the identity.
C3_VersionFallback ==
    (given.kind = "trk" /\ given.version = 1 /\ given.order = native_code /\ given.tail = 0
        /\ ret.op = "load" /\ ret.at = 0 /\ pc = "idle")
    => /\ ret.raised = "None"
       /\ container.made
       /\ container.header.to_world_space = eye4

\* C4: a traversal entered with a header count of 0 over a file of K whole
\* records yields K triples, and leaves K as the header's count.
C4_DiscoveredCount ==
    (given.kind = "trk" /\ given.tail = 0 /\ gen.state = "finished" /\ gen.endless)
    => /\ Len(yielded) = given.K
       /\ reader.header["NB_STREAMLINES"] = given.K

C4_Witness ==
    /\ given.kind = "trk" /\ given.count = 0 /\ given.tail = 0 /\ given.K = MaxRecords
    /\ gen.state = "finished" /\ gen.endless
    /\ Len(yielded) = MaxRecords
    /\ reader.header["NB_STREAMLINES"] = MaxRecords

\* The 5 bytes of f at p are there and are the magic number.
MagicAt(f, p) == p + 5 <= f.len /\ \A i \in 1..5 : ByteAt(f, p + i - 1) = MAGIC_NUMBER[i]

\* C5: is_correct_format returns whether the bytes at the cursor are the magic
\* number, and leaves the cursor where it was, also when fewer than 5 bytes remain.
C5_Sniffing ==
    ret.op = "is_correct_format"
    => /\ ret.raised = "None"
       /\ ret.value <=> MagicAt(disk, ret.at)
       /\ pos = ret.at

\* The totals of the writer do not divide evenly.
UnevenTotals ==
    /\ writer.nb_points > 0
    /\ \/ writer.nb_scalars % writer.nb_points # 0
       \/ writer.nb_properties % writer.nb_streamlines # 0

\* C6: a write whose totals do not divide evenly raises DataError and leaves the
\* placeholder header on file and in the writer.
C6_ConsistencyEnforced ==
    (WriteEnded /\ UnevenTotals)
    => /\ wret.raised = "DataError"
       /\ HeaderOnFile = Placeholder
       /\ writer.header = Placeholder

C6_Witness ==
    /\ WriteEnded
    /\ Len(input) = 2
    /\ ScalarsPerPoint(input[1]) = 2
    /\ ScalarsPerPoint(input[2]) = 3
    /\ wret.raised = "DataError"
    /\ HeaderOnFile = Placeholder

\* C7: in the file a write that returned without error left, every record has
\* the header's number of scalars at each point and of properties.
C7_UniformCounts ==
    (WriteEnded /\ wret.raised = "None")
    => \A k \in 1..Len(input) :
          /\ ScalarsPerPoint(input[k]) = HeaderOnFile["NB_SCALARS_PER_POINT"]
          /\ Len(input[k].properties) = HeaderOnFile["NB_PROPERTIES_PER_STREAMLINE"]

\* C8: a write of no streamline ends without error, with a header on file of
\* count 0 and of the configured (or zero) scalar and property counts.
C8_ZeroStreamlines ==
    (pc = "idle" /\ writer.made /\ wret.op = "write" /\ input = <<>>)
    => /\ wret.raised = "None"
       /\ HeaderOnFile["NB_STREAMLINES"] = 0
       /\ HeaderOnFile["NB_SCALARS_PER_POINT"] \in {0, given.hdr.nb_scalars_per_point}
       /\ HeaderOnFile["NB_PROPERTIES_PER_STREAMLINE"] \in {0, given.hdr.nb_properties_per_streamline}

\* C9: a traversal that ran to its end leaves the cursor where it was when the
\* traversal started.
C9_CursorRestored ==
    (ret.op = "iter" /\ ret.raised = "None") => pos = ret.at

\* C10: load sets the container's nb_streamlines only when the file's header
\* declares a count other than 0.
C10_DeclaredCountOnly ==
    (given.kind = "trk" /\ container.made /\ given.count = 0)
    => container.header.nb_streamlines = None

\* The traversal is about to read a record: line 179.
AtRecord == Iterating /\ loop_continues(gen)

\* Bytes of the file from the cursor on.
Remaining == Max(disk.len - pos, 0)

\* Bytes the record at the cursor needs, by its point count and the header.
RecordNeeds ==
    i4_itemsize
    + UnpackInt(read(disk, pos, i4_itemsize), reader.endianness)
        * (3 + reader.header["NB_SCALARS_PER_POINT"]) * f4_itemsize
    + reader.header["NB_PROPERTIES_PER_STREAMLINE"] * f4_itemsize

\* The input ends inside the record at the cursor: in its point count, or in
\* the points or the properties its point count and the header call for.
Truncated ==
    \/ Remaining \in 1..(i4_itemsize - 1)
    \/ /\ Remaining >= i4_itemsize
       /\ UnpackInt(read(disk, pos, i4_itemsize), reader.endianness) >= 0
       /\ Remaining < RecordNeeds

\* C11: in a traversal, a point-count read of zero bytes ends the sequence with
\* no error; an input that ends inside a record (1 to 3 bytes of point count, or
\* fewer bytes than the point count and the property count call for) makes the
\* traversal raise; the sequence never ends at such a record, and no triple is
\* yielded from it.
C11_TruncationRaises ==
    [][ (AtRecord /\ gen' # gen)
        => /\ Remaining = 0 => (gen'.state = "finished" /\ yielded' = yielded)
           /\ Truncated => (gen'.state = "raised" /\ yielded' = yielded
                              /\ ret'.raised \notin {"None", "pending"})
           /\ gen'.state = "finished" => Remaining = 0 ]_vars

C11_Witness ==
    /\ given.kind = "trk" /\ given.count = 0 /\ given.K = MaxRecords
    /\ given.P > 0 /\ given.tail = record_bytes(given.S, given.P) - 2
    /\ gen.state = "raised"
    /\ ret.op = "iter" /\ ret.raised = "ValueError"
    /\ Len(yielded) = MaxRecords

\* The header was written at construction and has not been rewritten.
BeforeRewrite == writer.made /\ wret.op = "write" /\ wret.raised # "None"

\* The bytes of the records write has emitted so far, in order.
EmittedBytes ==
    Flatten([k \in 1..writer.nb_streamlines |->
                pack_streamline(input[k], writer.header["VOXEL_SIZES"])])

\* Record k as a reader of the voxel sizes on file decodes it.
Emitted(k) ==
    [points     |-> [n \in 1..Len(input[k].points) |->
                       [c \in 1..3 |->
                          reader_convert(writer_convert(input[k].points[n][c],
                                                        writer.header["VOXEL_SIZES"][c]),
                                         writer.header["VOXEL_SIZES"][c])]],
     scalars    |-> input[k].scalars,
     properties |-> input[k].properties]

\* The file holds the placeholder header, then the emitted records and nothing else.
PlaceholderThenRecords ==
    /\ HeaderOnFile = Placeholder
    /\ disk.len = writer.beginning + itemsize(header_2_dtd) + Len(EmittedBytes)
    /\ read(disk, writer.beginning + itemsize(header_2_dtd), Len(EmittedBytes)) = EmittedBytes

\* A traversal of the file left before the rewrite has ended, one way or the other.
ReadBack == BeforeRewrite /\ reader.made /\ gen.state \in {"finished", "raised"}

\* The traversal yielded the emitted records, all of them and only them.
YieldedEmitted ==
    /\ gen.state = "finished"
    /\ yielded = [k \in 1..writer.nb_streamlines |-> Emitted(k)]

\* C12 as stated: before the rewrite the file holds the placeholder header and
\* then only complete records, and a reader of a file left in such a state,
\* whose placeholder declares count 0, yields exactly the records emitted so far.
C12_CrashState ==
    /\ BeforeRewrite => PlaceholderThenRecords
    /\ (ReadBack /\ Placeholder["NB_STREAMLINES"] = 0) => YieldedEmitted

\* Every emitted record has the placeholder's scalars per point and properties.
PlaceholderFits ==
    \A k \in 1..writer.nb_streamlines :
        /\ ScalarsPerPoint(input[k]) = Placeholder["NB_SCALARS_PER_POINT"]
        /\ Len(input[k].properties) = Placeholder["NB_PROPERTIES_PER_STREAMLINE"]

\* C12, amended: before the rewrite the file holds the placeholder header and
\* then only complete records; a reader of a file left in such a state yields
\* exactly the records emitted so far when the placeholder declares count 0 and
\* the scalar and property counts the emitted records have.
C12_CrashStateFitting ==
    /\ BeforeRewrite => PlaceholderThenRecords
    /\ (ReadBack /\ Placeholder["NB_STREAMLINES"] = 0 /\ PlaceholderFits) => YieldedEmitted

C12_Witness ==
    /\ wret.raised = "abandoned"
    /\ Placeholder["NB_STREAMLINES"] = 0
    /\ Placeholder["NB_SCALARS_PER_POINT"] = 2
    /\ writer.nb_streamlines = 1
    /\ PlaceholderFits
    /\ PlaceholderThenRecords
    /\ ReadBack
    /\ YieldedEmitted

\* C13: every full traversal of a reader over an unchanged input yields the
\* triples the first full traversal yielded, whatever the earlier traversals
\* did to the header's count and to the cursor.
C13_RepeatableTraversal ==
    (reader.made /\ gen.state = "finished" /\ first.done) => yielded = first.triples

\* A second traversal, begun where the first left the cursor (past the end of
\* the file) and with the count the first discovered, has yielded the same records.
C13_Witness ==
    /\ given.kind = "trk" /\ given.count = 0 /\ given.K = MaxRecords /\ given.tail = 0
    /\ reader.made /\ first.done
    /\ gen.state = "finished"
    /\ gen.start_position > disk.len
    /\ gen.nb_streamlines = MaxRecords
    /\ Len(yielded) = MaxRecords
    /\ yielded = first.triples

\* C14: a full traversal leaves the header's count as declared when the
\* declared count is not 0, also when the input ends after fewer records.
C14_CountKeptWhenDeclared ==
    (reader.made /\ gen.state = "finished" /\ ~gen.endless)
    => reader.header["NB_STREAMLINES"] = gen.nb_streamlines

====
